---- MODULE Spec2Model ----
(***************************************************************************)
(* A model of build_publications.py: the field formatters (format_authors, *)
(* get_entry_url, slugify, the image file name), the image resolver and    *)
(* normaliser acting on a file system, the page injector, and main.        *)
(*                                                                         *)
(* A Python str is a sequence of one-character strings.  An optional value *)
(* (a dict field that may be missing, a result that may be None) is a      *)
(* sequence of length 0 or 1.                                              *)
(***************************************************************************)
EXTENDS Integers, Sequences, FiniteSets, TLC

VARIABLES
    arg,        \* the argument of the pure function under test
    res,        \* its result: None before the call, Some(value) after
    html,       \* the content of HTML_FILE
    html0,      \* the content of HTML_FILE at the start
    cards_log,  \* cards_html of the successful inject calls, oldest first
    inj,        \* the last inject call: [status, before]
    fs,         \* the image files: path number -> [exists, mtime, img, from]
    fs0,        \* the image files at the start
    last,       \* the last image resolution: entry, outcome, files before it
    pc,         \* main's position
    bib,        \* the entries load_bib_entries returned
    todo,       \* main: sorted entries still to render
    cards       \* main: cards rendered so far

vars == <<arg, res, html, html0, cards_log, inj, fs, fs0, last, pc, bib, todo, cards>>

(***************************************************************************)
(* Bounds of the model.                                                    *)
(***************************************************************************)
MaxTitleLen == 5
MaxAuthors == 7
MaxHtmlLen == 6
MaxCalls == 2
MaxTime == 1
MaxEntries == 2

(***************************************************************************)
(* Optional values.                                                        *)
(***************************************************************************)
None == <<>>
Some(v) == <<v>>
IsSome(o) == Len(o) = 1
Val(o) == o[1]

(***************************************************************************)
(* Characters.                                                             *)
(***************************************************************************)
Lowers == <<"a","b","c","d","e","f","g","h","i","j","k","l","m",
            "n","o","p","q","r","s","t","u","v","w","x","y","z">>
Uppers == <<"A","B","C","D","E","F","G","H","I","J","K","L","M",
            "N","O","P","Q","R","S","T","U","V","W","X","Y","Z">>
Digits == <<"0","1","2","3","4","5","6","7","8","9">>
Range(s) == {s[i] : i \in 1..Len(s)}
IndexIn(s, c) == CHOOSE i \in 1..Len(s) : s[i] = c
IsLower(c) == c \in Range(Lowers)
IsUpper(c) == c \in Range(Uppers)
IsDigit(c) == c \in Range(Digits)
\* Python's str.isspace / the regex class \s
IsSpace(c) == c \in {" ", "\t", "\n", "\r"}
ToUpper(c) == IF IsLower(c) THEN Uppers[IndexIn(Lowers, c)] ELSE c
ToLower(c) == IF IsUpper(c) THEN Lowers[IndexIn(Uppers, c)] ELSE c

(***************************************************************************)
(* str operations.                                                         *)
(***************************************************************************)
Min(S) == CHOOSE x \in S : \A y \in S : x <= y
Max(S) == CHOOSE x \in S : \A y \in S : x >= y
MatchAt(s, pat, i) ==
    /\ i + Len(pat) - 1 <= Len(s)
    /\ SubSeq(s, i, i + Len(pat) - 1) = pat
\* first position (1-based) of pat in s, 0 when pat does not occur
Find(s, pat) ==
    LET hits == {i \in 1..Len(s) : MatchAt(s, pat, i)}
    IN  IF hits = {} THEN 0 ELSE Min(hits)
\* pat in s
Contains(s, pat) == Find(s, pat) # 0
\* s[i:] and s[:i] with Python's 0-based i
From(s, i) == SubSeq(s, i + 1, Len(s))
UpTo(s, i) == SubSeq(s, 1, i)

RECURSIVE Split(_, _)
\* s.split(sep)
Split(s, sep) ==
    LET j == Find(s, sep)
    IN  IF j = 0 THEN <<s>>
        ELSE <<SubSeq(s, 1, j - 1)>> \o Split(SubSeq(s, j + Len(sep), Len(s)), sep)

\* s.strip()
Strip(s) ==
    LET keep == {i \in 1..Len(s) : ~IsSpace(s[i])}
    IN  IF keep = {} THEN <<>> ELSE SubSeq(s, Min(keep), Max(keep))

\* s.strip(chars)
StripChars(s, chars) ==
    LET keep == {i \in 1..Len(s) : s[i] \notin chars}
    IN  IF keep = {} THEN <<>> ELSE SubSeq(s, Min(keep), Max(keep))

RECURSIVE SplitWs(_)
\* s.split(): on runs of whitespace, no empty pieces
SplitWs(s) ==
    LET t == Strip(s)
        ws == {i \in 1..Len(t) : IsSpace(t[i])}
    IN  IF t = <<>> THEN <<>>
        ELSE IF ws = {} THEN <<t>>
        ELSE <<SubSeq(t, 1, Min(ws) - 1)>> \o SplitWs(SubSeq(t, Min(ws), Len(t)))

RECURSIVE Join(_, _)
\* sep.join(parts)
Join(parts, sep) ==
    IF parts = <<>> THEN <<>>
    ELSE IF Len(parts) = 1 THEN parts[1]
    ELSE parts[1] \o sep \o Join(Tail(parts), sep)

\* s.replace(old, new) for a single character old
ReplaceChar(s, old, new) == [i \in 1..Len(s) |-> IF s[i] = old THEN new ELSE s[i]]

\* s.capitalize(): first character upper case, the rest lower case
Capitalize(s) == [i \in 1..Len(s) |-> IF i = 1 THEN ToUpper(s[i]) ELSE ToLower(s[i])]

\* all sequences over S of length at most n
SeqsUpTo(S, n) == UNION {[1..k -> S] : k \in 0..n}

\* entry.get(key) and entry.get(key, default): a missing key is None
Get(entry, key) == entry[key]
GetOr(entry, key, default) == IF IsSome(entry[key]) THEN Val(entry[key]) ELSE default
\* Python truthiness of entry.get(key): present and not empty
Truthy(o) == IsSome(o) /\ Val(o) # <<>>

(***************************************************************************)
(* String constants of the program.                                        *)
(***************************************************************************)
AND_SEP == <<" ", "a", "n", "d", " ">>
COMMA_SEP == <<",", " ">>
ET_AL == <<",", " ", "e", "t", " ", "a", "l", ".">>
DOI_PREFIX == <<"h","t","t","p","s",":","/","/","d","o","i",".","o","r","g","/">>
SCHOLAR_PREFIX == <<"h","t","t","p","s",":","/","/","s","c","h","o","l","a","r",".",
                    "g","o","o","g","l","e",".","c","o","m","/","s","c","h","o","l","a","r","?","q","=">>
PAPER == <<"p","a","p","e","r">>
XXXX == <<"x","x","x","x">>
UNKNOWN == <<"U","n","k","n","o","w","n">>
JPG == <<".","j","p","g">>
AuthorLimit == 6
DefaultMaxWords == 4

(***************************************************************************)
(* format_authors                                                          *)
(***************************************************************************)
NonEmpty(s) == s # <<>>
\* [a.strip() for a in raw.split(" and ") if a.strip()]
AuthorList(raw) ==
    LET pieces == Split(raw, AND_SEP)
    IN  SelectSeq([i \in 1..Len(pieces) |-> Strip(pieces[i])], NonEmpty)

FitsLimit_Strict(authors) == Len(authors) < AuthorLimit
\* len(authors) <= 6
FitsLimit(authors) == Len(authors) <= AuthorLimit

format_authors(authors_str) ==
    IF authors_str = <<>> THEN <<>>
    ELSE LET raw == ReplaceChar(authors_str, "\n", " ")
             authors == AuthorList(raw)
         IN  IF FitsLimit(authors) THEN Join(authors, COMMA_SEP)
             ELSE Join(SubSeq(authors, 1, AuthorLimit), COMMA_SEP) \o ET_AL

(***************************************************************************)
(* get_entry_url and urllib.parse.quote_plus                               *)
(***************************************************************************)
\* the characters quote_plus leaves as they are, besides letters and digits
UrlSafe == {"_", ".", "-", "~"}
\* the percent-encoding of the other ASCII characters of the model
PercentCode(c) ==
    CASE c = "&" -> <<"%", "2", "6">>
      [] c = "+" -> <<"%", "2", "B">>
      [] c = "%" -> <<"%", "2", "5">>
      [] c = "," -> <<"%", "2", "C">>
      [] c = ":" -> <<"%", "3", "A">>
      [] c = "!" -> <<"%", "2", "1">>
      [] c = "{" -> <<"%", "7", "B">>
      [] c = "}" -> <<"%", "7", "D">>
      [] c = "<" -> <<"%", "3", "C">>
      [] c = ">" -> <<"%", "3", "E">>

QuoteChar(c) ==
    IF IsLower(c) \/ IsUpper(c) \/ IsDigit(c) \/ c \in UrlSafe THEN <<c>>
    ELSE IF c = " " THEN <<"+">>
    ELSE PercentCode(c)

RECURSIVE quote_plus(_)
quote_plus(s) == IF s = <<>> THEN <<>> ELSE QuoteChar(Head(s)) \o quote_plus(Tail(s))

get_entry_url_DoiFirst(entry) ==
    LET url == Get(entry, "url")
        doi == Get(entry, "doi")
        title == Get(entry, "title")
    IN  IF Truthy(doi) THEN Some(DOI_PREFIX \o Val(doi))
        ELSE IF Truthy(url) THEN url
        ELSE IF Truthy(title) THEN Some(SCHOLAR_PREFIX \o quote_plus(Val(title)))
        ELSE None

get_entry_url(entry) ==
    LET url == Get(entry, "url")
        doi == Get(entry, "doi")
        title == Get(entry, "title")
    IN  IF Truthy(url) THEN url
        ELSE IF Truthy(doi) THEN Some(DOI_PREFIX \o Val(doi))
        ELSE IF Truthy(title) THEN Some(SCHOLAR_PREFIX \o quote_plus(Val(title)))
        ELSE None

(***************************************************************************)
(* slugify                                                                 *)
(***************************************************************************)
\* the characters re.sub(r"[^a-zA-Z0-9\s]", "", text) keeps
SlugKeeps(c) == IsLower(c) \/ IsUpper(c) \/ IsDigit(c) \/ IsSpace(c)

slugify(text, max_words) ==
    IF text = <<>> THEN PAPER
    ELSE LET kept == SelectSeq(text, SlugKeeps)
             all == SplitWs(kept)
             words == SubSeq(all, 1, Min({max_words, Len(all)}))
         IN  Join([i \in 1..Len(words) |-> Capitalize(words[i])], <<>>)

(***************************************************************************)
(* Idle values of the variables a specification does not use.              *)
(***************************************************************************)
FmtIdle == arg = None /\ res = None
InjIdle ==
    /\ html = <<>> /\ html0 = <<>> /\ cards_log = <<>>
    /\ inj = [status |-> "none", before |-> <<>>]
ImgIdle == fs = <<>> /\ fs0 = <<>> /\ last = [kind |-> "none"]
MainIdle == pc = "idle" /\ bib = <<>> /\ todo = <<>> /\ cards = <<>>
FmtVars == <<arg, res>>
InjVars == <<html, html0, cards_log, inj>>
ImgVars == <<fs, fs0, last>>
MainVars == <<pc, bib, todo, cards>>

(***************************************************************************)
(* slugify applied to every short title.                                   *)
(***************************************************************************)
TitleChars == {"a", "B", " ", "-"}
MaxWordsChoices == {1, 2, DefaultMaxWords}

SlugInit ==
    /\ arg \in [title : SeqsUpTo(TitleChars, MaxTitleLen), max_words : MaxWordsChoices]
    /\ res = None
    /\ InjIdle /\ ImgIdle /\ MainIdle

CallSlugify ==
    /\ res = None
    /\ res' = Some(slugify(arg.title, arg.max_words))
    /\ UNCHANGED <<arg, InjVars, ImgVars, MainVars>>

SlugNext == CallSlugify
SpecSlug == SlugInit /\ [][SlugNext]_vars

\* what the claim says slugify returns
IsBlank(s) == \A i \in 1..Len(s) : IsSpace(s[i])
ClaimKeeps(c) == IsLower(c) \/ IsUpper(c) \/ IsDigit(c) \/ c = " "
ClaimSlug(title, max_words) ==
    IF IsBlank(title) THEN PAPER
    ELSE LET tokens == SplitWs(SelectSeq(title, ClaimKeeps))
             first == SubSeq(tokens, 1, Min({max_words, Len(tokens)}))
         IN  Join([i \in 1..Len(first) |-> Capitalize(first[i])], <<>>)

\* C7: slugify returns "paper" for every empty or whitespace-only title, and
\* for every other title the concatenation of the capitalized first maxWords
\* tokens left after removing the characters outside [A-Za-z0-9 ].
C7_SlugifyAsClaimed == IsSome(res) => Val(res) = ClaimSlug(arg.title, arg.max_words)

\* the part of C7 the code does satisfy: every title that is empty or holds a
\* character other than whitespace
C7_SlugifyNonBlank ==
    (IsSome(res) /\ (arg.title = <<>> \/ ~IsBlank(arg.title)))
        => Val(res) = ClaimSlug(arg.title, arg.max_words)

(***************************************************************************)
(* get_entry_url applied to every combination of url, doi and title.       *)
(***************************************************************************)
UrlTitleChars == {"a", " ", "&", "+"}
Optional(S) == {None} \cup {Some(v) : v \in S}
EntryKeys == {"year", "author", "title", "url", "doi", "journal", "booktitle"}
NoFields == [k \in EntryKeys |-> None]

UrlInit ==
    /\ \E u \in Optional({<<>>, <<"u">>}), d \in Optional({<<>>, <<"1", "0">>}),
          t \in Optional(SeqsUpTo(UrlTitleChars, MaxTitleLen)) :
            arg = [NoFields EXCEPT !["url"] = u, !["doi"] = d, !["title"] = t]
    /\ res = None
    /\ InjIdle /\ ImgIdle /\ MainIdle

CallGetEntryUrl ==
    /\ res = None
    /\ res' = Some(get_entry_url(arg))
    /\ UNCHANGED <<arg, InjVars, ImgVars, MainVars>>

UrlNext == CallGetEntryUrl
SpecUrl == UrlInit /\ [][UrlNext]_vars

\* urllib.parse.unquote_plus, the inverse of quote_plus
Quoted == {"&", "+", "%", ",", ":", "!", "{", "}", "<", ">"}
RECURSIVE unquote_plus(_)
unquote_plus(s) ==
    IF s = <<>> THEN <<>>
    ELSE IF s[1] = "+" THEN <<" ">> \o unquote_plus(Tail(s))
    ELSE IF s[1] = "%" /\ Len(s) >= 3
              /\ \E c \in Quoted : PercentCode(c) = SubSeq(s, 1, 3)
         THEN <<CHOOSE c \in Quoted : PercentCode(c) = SubSeq(s, 1, 3)>>
                  \o unquote_plus(SubSeq(s, 4, Len(s)))
    ELSE <<s[1]>> \o unquote_plus(Tail(s))

IsScholarLink(r, title) ==
    /\ IsSome(r)
    /\ MatchAt(Val(r), SCHOLAR_PREFIX, 1)
    /\ LET q == From(Val(r), Len(SCHOLAR_PREFIX))
       IN  /\ \A i \in 1..Len(q) : q[i] \notin {" ", "&"}
           /\ unquote_plus(q) = title

\* C8: get_entry_url returns the url field if it is present and not empty,
\* else https://doi.org/<doi> if doi is, else a scholar search link that
\* encodes the title if title is, else None.
C8_UrlPrecedence ==
    IsSome(res) =>
        LET r == Val(res)
            hasUrl == arg["url"] \notin {None, Some(<<>>)}
            hasDoi == arg["doi"] \notin {None, Some(<<>>)}
            hasTitle == arg["title"] \notin {None, Some(<<>>)}
        IN  /\ hasUrl => r = arg["url"]
            /\ (~hasUrl /\ hasDoi) =>
                  r = Some(<<"h","t","t","p","s",":","/","/","d","o","i",".","o","r","g","/">>
                               \o Val(arg["doi"]))
            /\ (~hasUrl /\ ~hasDoi /\ hasTitle) => IsScholarLink(r, Val(arg["title"]))
            /\ (~hasUrl /\ ~hasDoi /\ ~hasTitle) => r = None

\* a url and a doi are both present, and the url was returned
C8_Witness ==
    /\ IsSome(res)
    /\ arg["url"] = Some(<<"u">>) /\ arg["doi"] = Some(<<"1", "0">>)
    /\ Val(res) = Some(<<"u">>)

(***************************************************************************)
(* format_authors applied to every short list of authors.                  *)
(***************************************************************************)
AuthorNames == {<<"A">>, <<"S","a","n","d",","," ","B">>, <<"a","n","d">>}
AuthorSeps == {AND_SEP, <<"\n", "a", "n", "d", " ">>}

AuthorsInit ==
    /\ arg \in [names : SeqsUpTo(AuthorNames, MaxAuthors), sep : AuthorSeps]
    /\ res = None
    /\ InjIdle /\ ImgIdle /\ MainIdle

CallFormatAuthors ==
    /\ res = None
    /\ res' = Some(format_authors(Join(arg.names, arg.sep)))
    /\ UNCHANGED <<arg, InjVars, ImgVars, MainVars>>

AuthorsNext == CallFormatAuthors
SpecAuthors == AuthorsInit /\ [][AuthorsNext]_vars

\* C9: with N = 6, an author string of at most N authors gives all of them
\* joined by ", "; more than N authors give the first N joined by ", " and
\* then ", et al."; the empty string gives the empty string.
C9_AuthorsFormat ==
    IsSome(res) =>
        LET names == arg.names
            n == Len(names)
            r == Val(res)
        IN  /\ n = 0 => r = <<>>
            /\ n <= 6 => r = Join(names, <<",", " ">>)
            /\ n > 6 => r = Join(SubSeq(names, 1, 6), <<",", " ">>)
                                \o <<",", " ", "e", "t", " ", "a", "l", ".">>

\* exactly six authors were formatted, and seven were
C9_Witness == IsSome(res) /\ Len(arg.names) = 6 /\ Val(res) # <<>>

(***************************************************************************)
(* inject_cards_into_html.  The two marker literals are abbreviated to two *)
(* characters each: like the literals of the program they share their      *)
(* first character, neither overlaps itself or the other, and neither      *)
(* holds a line break.                                                     *)
(***************************************************************************)
\* "<!-- PUBLICATIONS-START -->"
start_marker == <<"<", "S">>
\* "<!-- PUBLICATIONS-END -->"
end_marker == <<"<", "E">>

\* not (start_marker not in html or end_marker not in html)
MarkersPresent(h) == Contains(h, start_marker) /\ Contains(h, end_marker)

start_index_NoLen(h) == Find(h, start_marker) - 1
\* html.index(start_marker) + len(start_marker)
start_index(h) == (Find(h, start_marker) - 1) + Len(start_marker)
\* html.index(end_marker)
end_index(h) == Find(h, end_marker) - 1

new_html(h, cards_html) ==
    UpTo(h, start_index(h)) \o <<"\n">> \o cards_html \o <<"\n", " ", " ">>
        \o From(h, end_index(h))

inject_TruncatesFirst(h, cards_html) ==
    IF ~MarkersPresent(h) THEN [raised |-> TRUE, html |-> <<>>]
    ELSE [raised |-> FALSE, html |-> new_html(h, cards_html)]

\* the call's outcome: whether RuntimeError was raised, and the file afterwards
inject_cards_into_html(h, cards_html) ==
    IF ~MarkersPresent(h) THEN [raised |-> TRUE, html |-> h]
    ELSE [raised |-> FALSE, html |-> new_html(h, cards_html)]

HtmlChars == {"<", "S", "E", "x"}
CardSamples == { <<>>, <<"c">>, <<"d", "\n", "d">>, <<"<", "S">>,
                 <<"<", "E">>, <<"c", "<", "E", "d">> }

InjInit ==
    /\ html \in SeqsUpTo(HtmlChars, MaxHtmlLen)
    /\ html0 = html
    /\ cards_log = <<>>
    /\ inj = [status |-> "none", before |-> <<>>]
    /\ FmtIdle /\ ImgIdle /\ MainIdle

Inject(cards_html) ==
    /\ Len(cards_log) < MaxCalls
    /\ LET r == inject_cards_into_html(html, cards_html)
       IN  /\ html' = r.html
           /\ inj' = [status |-> IF r.raised THEN "error" ELSE "ok", before |-> html]
           /\ cards_log' = IF r.raised THEN cards_log ELSE Append(cards_log, cards_html)
    /\ UNCHANGED <<html0, FmtVars, ImgVars, MainVars>>

InjNext == \E c \in CardSamples : Inject(c)
SpecInject == InjInit /\ [][InjNext]_vars

\* the claims' reading of a file, written without the program's index arithmetic
FirstStart(h) == Find(h, <<"<", "S">>)
FirstEnd(h) == Find(h, <<"<", "E">>)
\* the text up to and including the start marker
ThroughStart(h) == SubSeq(h, 1, FirstStart(h) + 1)
\* the first end marker after the start marker, 0 when there is none
EndAfterStart(h) ==
    LET hits == {i \in (FirstStart(h) + 2)..Len(h) : MatchAt(h, <<"<", "E">>, i)}
    IN  IF hits = {} THEN 0 ELSE Min(hits)
HasStartThenEnd(h) == FirstStart(h) # 0 /\ EndAfterStart(h) # 0
\* the text from the end marker onwards
FromEnd(h) == SubSeq(h, EndAfterStart(h), Len(h))
LastCards == cards_log[Len(cards_log)]

\* C1 as stated: after one or more successful calls on a file holding the start
\* marker followed by the end marker, the file is the original text through the
\* start marker, a newline, the latest cards, a newline, the original text from
\* the end marker on.
C1_AsClaimed ==
    (cards_log # <<>> /\ HasStartThenEnd(html0)) =>
        html = ThroughStart(html0) \o <<"\n">> \o LastCards \o <<"\n">> \o FromEnd(html0)

\* C1 as amended: when no end marker precedes the first start marker and the
\* cards of the earlier calls hold no end marker, the file is the original text
\* through the start marker, a newline, the latest cards, a newline and two
\* spaces, the original text from the end marker on.
C1_Amended ==
    (/\ cards_log # <<>>
     /\ HasStartThenEnd(html0)
     /\ FirstEnd(html0) > FirstStart(html0)
     /\ \A i \in 1..(Len(cards_log) - 1) : ~Contains(cards_log[i], <<"<", "E">>))
    => html = ThroughStart(html0) \o <<"\n">> \o LastCards \o <<"\n", " ", " ">>
                  \o FromEnd(html0)

\* two successful calls with different, non-empty cards on a file with text
\* before, between and after the markers
C1_Witness ==
    /\ Len(cards_log) = 2
    /\ cards_log[1] = <<"d", "\n", "d">> /\ cards_log[2] = <<"c">>
    /\ html0 = <<"<", "S", "x", "<", "E">>

\* C2: when the file lacks the start marker or the end marker, the call raises
\* and leaves the file as it was.
C2_MissingMarker ==
    (inj.status # "none" /\ (FirstStart(inj.before) = 0 \/ FirstEnd(inj.before) = 0))
        => (inj.status = "error" /\ html = inj.before)

\* a call on a non-empty file that holds the start marker but no end marker
C2_Witness ==
    /\ inj.status = "error"
    /\ FirstStart(inj.before) # 0 /\ FirstEnd(inj.before) = 0
    /\ Len(inj.before) > 2

(***************************************************************************)
(* Image paths.                                                            *)
(***************************************************************************)
ORIGINAL_IMAGE_DIR ==
    <<"i","m","g","/","p","a","p","e","r","s">>
CROPPED_IMAGE_DIR ==
    <<"i","m","g","/","p","a","p","e","r","s","_","c","r","o","p","p","e","d","_","s",
      "m","a","l","l","e","r">>
PLACEHOLDER_NAME ==
    <<"p","l","a","c","e","h","o","l","d","e","r",".","j","p","g">>
PLACEHOLDER_IMAGE == [dir |-> ORIGINAL_IMAGE_DIR, name |-> PLACEHOLDER_NAME]
\* Path.as_posix()
as_posix(path) == path.dir \o <<"/">> \o path.name

\* the first author's surname, or the IndexError of first.split()[-1]
FirstAuthor(authors) ==
    LET first == Split(authors, AND_SEP)[1]
        words == SplitWs(first)
    IN  IF Contains(first, <<",">>)
        THEN [exc |-> "none", name |-> Capitalize(Strip(Split(first, <<",">>)[1]))]
        ELSE IF words = <<>> THEN [exc |-> "IndexError", name |-> <<>>]
        ELSE [exc |-> "none", name |-> Capitalize(words[Len(words)])]

\* the path, or the exception raised while computing it
original_image_path_for_entry(entry) ==
    LET year == GetOr(entry, "year", XXXX)
        authors == GetOr(entry, "author", <<>>)
        fa == IF authors # <<>> THEN FirstAuthor(authors)
              ELSE [exc |-> "none", name |-> UNKNOWN]
        title_slug == slugify(GetOr(entry, "title", <<>>), DefaultMaxWords)
    IN  [exc |-> fa.exc,
         path |-> [dir |-> ORIGINAL_IMAGE_DIR,
                   name |-> year \o <<"_">> \o fa.name \o <<"_">> \o title_slug \o JPG]]

\* Path.name: the text after the last "/"
BaseName(name) ==
    LET slashes == {i \in 1..Len(name) : name[i] = "/"}
    IN  IF slashes = {} THEN name ELSE SubSeq(name, Max(slashes) + 1, Len(name))

\* CROPPED_IMAGE_DIR / orig.name
CroppedPath(orig) ==
    [exc |-> orig.exc,
     path |-> [dir |-> CROPPED_IMAGE_DIR, name |-> BaseName(orig.path.name)]]
cropped_image_path_for_entry(entry) == CroppedPath(original_image_path_for_entry(entry))

(***************************************************************************)
(* The entries of the model, by their BibTeX key: two whose file names     *)
(* collide, one with no fields at all, one whose author is a single space. *)
(***************************************************************************)
EntryOf ==
    [doe |->
        [NoFields EXCEPT !["year"] = Some(<<"2", "1">>),
                         !["author"] = Some(<<"D","o","e",","," ","J"," ","a","n","d"," ",
                                              "R","o","e",","," ","R">>),
                         !["title"] = Some(<<"a", " ", "b">>)],
     doe2 |->
        [NoFields EXCEPT !["year"] = Some(<<"2", "1">>),
                         !["author"] = Some(<<"j", " ", "d", "o", "e">>),
                         !["title"] = Some(<<"a", " ", " ", "b", "!">>),
                         !["doi"] = Some(<<"1", "0">>)],
     bare |-> NoFields,
     blank |->
        [NoFields EXCEPT !["year"] = Some(<<"n", "d">>),
                         !["author"] = Some(<<" ">>),
                         !["title"] = Some(<<"a", " ", "b">>)]]
EntryIds == DOMAIN EntryOf

\* the paths of the entries, computed once, and numbered: a file is referred to
\* by the number of its path
OrigOf == [id \in EntryIds |-> original_image_path_for_entry(EntryOf[id])]
CroppedOf == [id \in EntryIds |-> cropped_image_path_for_entry(EntryOf[id])]
Pathed == {id \in EntryIds : OrigOf[id].exc = "none"}
RECURSIVE SetToSeq(_)
SetToSeq(S) ==
    IF S = {} THEN <<>> ELSE LET x == CHOOSE x \in S : TRUE IN <<x>> \o SetToSeq(S \ {x})
PathList ==
    <<PLACEHOLDER_IMAGE>> \o SetToSeq({OrigOf[id].path : id \in Pathed})
        \o SetToSeq({CroppedOf[id].path : id \in Pathed})
\* the placeholder heads PathList
Placeholder == 1
\* what a resolution needs of an entry: the exception its path computation
\* raises, the numbers of its original and of its cropped path
Located(orig, cropped, list) ==
    [exc |-> orig.exc,
     orig_path |-> IF orig.exc = "none" THEN IndexIn(list, orig.path) ELSE 0,
     cropped_path |-> IF orig.exc = "none" THEN IndexIn(list, cropped.path) ELSE 0]
PathsOf == [id \in EntryIds |-> Located(OrigOf[id], CroppedOf[id], PathList)]
OrigNo == [id \in Pathed |-> PathsOf[id].orig_path]
CroppedNo == [id \in Pathed |-> PathsOf[id].cropped_path]
OrigPaths == {OrigNo[id] : id \in Pathed}
CroppedPaths == {CroppedNo[id] : id \in Pathed}
Paths == 1..Len(PathList)

(***************************************************************************)
(* The file system.  A file is absent, or has a modification time, an      *)
(* image (good: decodable with a positive size; corrupt: Image.open        *)
(* raises; degenerate: decodable with height 0, so w / h raises) and the   *)
(* provenance of its content.  mkdir is modelled by its failure only.      *)
(***************************************************************************)
Absent == [exists |-> FALSE, mtime |-> 0, img |-> "none", from |-> "none"]
File(t, img, from) == [exists |-> TRUE, mtime |-> t, img |-> img, from |-> from]
ImageKinds == {"good", "corrupt", "degenerate"}

\* what can go wrong in the operating system during one resolution; at most one
\* fault takes effect, since the first exception ends ensure_local_image_for_entry
Faults == {"none", "mkdir", "copy", "copy_partial", "stat", "save", "save_partial"}

\* the outcome of a call: the files after it, the exception it raised ("none":
\* it returned), the path it returned, the paths it wrote
Outcome(f, exc, ret, wrote) == [fs |-> f, exc |-> exc, ret |-> ret, wrote |-> wrote]

\* process_image_to_cropped(source, dest), the save stamped t
process_image_to_cropped(f, source, dest, fault, t) ==
    IF f[source].img = "corrupt" THEN Outcome(f, "UnidentifiedImageError", None, {})
    ELSE IF f[source].img = "degenerate" THEN Outcome(f, "ZeroDivisionError", None, {})
    ELSE IF fault = "save" THEN Outcome(f, "OSError", None, {})
    ELSE IF fault = "save_partial"
        THEN Outcome([f EXCEPT ![dest] = File(t, "corrupt", f[source].from)],
                     "OSError", None, {dest})
    ELSE Outcome([f EXCEPT ![dest] = File(t, "good", f[source].from)], "none", None, {dest})

NeedsCopy_Always(f, orig_path) == TRUE
\* not orig_path.exists()
NeedsCopy(f, orig_path) == ~f[orig_path].exists

IsStale_NonStrict(f, orig_path, cropped_path) ==
    (~f[cropped_path].exists) \/ (f[orig_path].mtime >= f[cropped_path].mtime)
\* (not cropped_path.exists()) or (orig mtime > cropped mtime)
IsStale(f, orig_path, cropped_path) ==
    (~f[cropped_path].exists) \/ (f[orig_path].mtime > f[cropped_path].mtime)

BailOut_Cropped(cropped_path) == cropped_path
\* return PLACEHOLDER_IMAGE.as_posix()
BailOut(cropped_path) == Placeholder

\* ensure_local_image_for_entry(entry) on files f, the entry given by its
\* paths (PathsOf); a copy is stamped t1 and a derivative t2
ensure_local_image_for_entry(entry, f, fault, t1, t2) ==
    IF fault = "mkdir" THEN Outcome(f, "OSError", None, {})
    ELSE IF entry.exc # "none" THEN Outcome(f, entry.exc, None, {})
    ELSE
        LET orig_path == entry.orig_path
            cropped_path == entry.cropped_path
        IN  IF NeedsCopy(f, orig_path) /\ ~f[Placeholder].exists
                THEN Outcome(f, "none", Some(BailOut(cropped_path)), {})
            ELSE IF NeedsCopy(f, orig_path) /\ fault = "copy"
                THEN Outcome(f, "OSError", None, {})
            ELSE IF NeedsCopy(f, orig_path) /\ fault = "copy_partial"
                THEN Outcome([f EXCEPT ![orig_path] = File(t1, "corrupt", "placeholder")],
                             "OSError", None, {orig_path})
            ELSE
                LET copied == NeedsCopy(f, orig_path)
                    f1 == IF copied
                          THEN [f EXCEPT ![orig_path] =
                                   File(t1, f[Placeholder].img, f[Placeholder].from)]
                          ELSE f
                    w1 == IF copied THEN {orig_path} ELSE {}
                IN  IF f1[cropped_path].exists /\ fault = "stat"
                        THEN Outcome(f1, "OSError", None, w1)
                    ELSE IF IsStale(f1, orig_path, cropped_path)
                        THEN LET p == process_image_to_cropped(f1, orig_path,
                                                                cropped_path, fault, t2)
                             IN  Outcome(p.fs, p.exc,
                                         IF p.exc = "none" THEN Some(cropped_path) ELSE None,
                                         w1 \cup p.wrote)
                    ELSE Outcome(f1, "none", Some(cropped_path), w1)

\* the exceptions of the model, all subclasses of Exception
PyExceptions == {"OSError", "UnidentifiedImageError", "ZeroDivisionError", "IndexError"}
Caught_OSErrorOnly(exc) == exc \in {"OSError", "UnidentifiedImageError"}
\* except Exception
Caught(exc) == exc \in PyExceptions

\* get_image_src_for_entry(entry), given the outcome o of its call of
\* ensure_local_image_for_entry: a caught exception becomes the placeholder path
get_image_src_for_entry(o) ==
    IF o.exc # "none" /\ Caught(o.exc)
    THEN [o EXCEPT !.exc = "none", !.ret = Some(Placeholder)]
    ELSE o

(***************************************************************************)
(* Image resolutions on every small file system.  Modification times are   *)
(* arbitrary: the files predate the run, and the clock that stamps a write *)
(* is only assumed not to run backwards within one resolution.             *)
(***************************************************************************)
Times == 0..MaxTime
OrigFiles == {Absent} \cup {File(t, k, "user") : t \in Times, k \in ImageKinds}
PlaceholderFiles == {Absent} \cup {File(0, k, "placeholder") : k \in ImageKinds}
CroppedFiles == {Absent} \cup {File(t, "good", "unknown") : t \in Times}
\* the entries that were never resolved before: no original, no derivative
FreshIds == {"bare"}
\* every choice of files at the paths of the entries resolved before (table:
\* the entries' paths) and at the placeholder
FileSystemsOn(paths, table) ==
    LET old == {id \in DOMAIN table : table[id].exc = "none" /\ id \notin FreshIds}
        origs == {table[id].orig_path : id \in old}
        croppeds == {table[id].cropped_path : id \in old}
    IN  {[p \in paths |-> IF p \in origs THEN o[p]
                          ELSE IF p \in croppeds THEN c[p]
                          ELSE IF p = Placeholder THEN ph ELSE Absent] :
            o \in [origs -> OrigFiles],
            c \in [croppeds -> CroppedFiles],
            ph \in PlaceholderFiles}
FileSystems == FileSystemsOn(Paths, PathsOf)
\* the stamps a copy can get: one value when no copy is made
CopyTimes(entry, f) ==
    IF entry.exc = "none" /\ NeedsCopy(f, entry.orig_path) THEN Times ELSE {0}

ImgInit ==
    /\ fs \in FileSystems
    /\ fs0 = fs
    /\ last = [kind |-> "none"]
    /\ FmtIdle /\ InjIdle /\ MainIdle

\* get_image_src_for_entry of the entry id, whose paths are entry
ResolveImage(id, entry) ==
    \E fault \in Faults, t1 \in CopyTimes(entry, fs) :
      \E t2 \in t1..MaxTime :
        LET e == ensure_local_image_for_entry(entry, fs, fault, t1, t2)
            g == get_image_src_for_entry(e)
        IN  /\ fs' = g.fs
            /\ last' = [kind |-> "resolve", entry |-> id, pre |-> fs,
                        ens_exc |-> e.exc, ens_ret |-> e.ret, wrote |-> g.wrote,
                        src_exc |-> g.exc, src_ret |-> g.ret]
            /\ UNCHANGED <<fs0, FmtVars, InjVars, MainVars>>

ImgNext == \E id \in EntryIds : ResolveImage(id, PathsOf[id])
SpecImage == ImgInit /\ [][ImgNext]_vars

\* the last resolution was of an entry that has a path
Resolved == last.kind = "resolve" /\ last.entry \in Pathed
LastOrig == OrigNo[last.entry]
LastCropped == CroppedNo[last.entry]
\* at the freshness check the derivative was missing or strictly older than the
\* original (which a resolution never changes after the check)
StaleAtCheck ==
    \/ ~last.pre[LastCropped].exists
    \/ fs[LastOrig].exists /\ last.pre[LastCropped].mtime < fs[LastOrig].mtime

\* C3: get_image_src_for_entry never raises; when a step of the resolution
\* fails it returns the placeholder path, otherwise the path
\* ensure_local_image_for_entry returned.
C3_NeverRaises ==
    last.kind = "resolve" =>
        /\ last.src_exc = "none"
        /\ IsSome(last.src_ret)
        /\ last.ens_exc # "none" => last.src_ret = Some(Placeholder)
        /\ last.ens_exc = "none" => last.src_ret = last.ens_ret

\* a degenerate original made the resolution fail, and the placeholder path
\* came back
C3_Witness ==
    /\ last.kind = "resolve"
    /\ last.ens_exc = "ZeroDivisionError"
    /\ last.src_exc = "none" /\ last.src_ret = Some(Placeholder)

\* C5 as stated, for the resolutions that complete: the derivative is written
\* if and only if it did not exist or was strictly older than the original.
C5_AsClaimed ==
    (Resolved /\ last.ens_exc = "none") => ((LastCropped \in last.wrote) <=> StaleAtCheck)

\* C5 as amended: the derivative is written only if it did not exist or was
\* strictly older than the original; when an original is available (it exists
\* or the placeholder exists) and the resolution completes, if and only if.
\* With an existing original and a derivative not older than it nothing is
\* written; a derivative older than its original is regenerated by a
\* resolution that completes.
C5_Amended ==
    Resolved =>
        LET pre == last.pre
            o == LastOrig
            c == LastCropped
        IN  /\ c \in last.wrote => StaleAtCheck
            /\ (last.ens_exc = "none" /\ (pre[o].exists \/ pre[Placeholder].exists))
                  => ((c \in last.wrote) <=> StaleAtCheck)
            /\ (pre[o].exists /\ pre[c].exists /\ pre[c].mtime >= pre[o].mtime)
                  => (last.wrote = {} /\ fs = pre)
            /\ (pre[o].exists /\ pre[c].exists /\ pre[c].mtime < pre[o].mtime
                    /\ last.ens_exc = "none")
                  => (c \in last.wrote /\ fs[c].from = pre[o].from)

\* an original and a derivative with the same modification time: the cropped
\* path is returned and nothing is written
C5_Witness ==
    /\ Resolved
    /\ last.pre[LastOrig].exists /\ last.pre[LastCropped].exists
    /\ last.pre[LastCropped].mtime = last.pre[LastOrig].mtime
    /\ last.ens_ret = Some(LastCropped)
    /\ last.wrote = {}

\* C6 as stated, for the calls of ensure_local_image_for_entry that return:
\* with no original and no placeholder it returns the placeholder path and
\* creates nothing; with no original and a placeholder it copies the
\* placeholder to the original path, produces the derivative from it and
\* returns the cropped path.
C6_AsClaimed ==
    (Resolved /\ last.ens_exc = "none" /\ ~last.pre[LastOrig].exists) =>
        IF ~last.pre[Placeholder].exists
        THEN last.ens_ret = Some(Placeholder) /\ fs = last.pre /\ last.wrote = {}
        ELSE /\ fs[LastOrig].exists
             /\ fs[LastOrig].img = last.pre[Placeholder].img
             /\ fs[LastOrig].from = "placeholder"
             /\ LastCropped \in last.wrote
             /\ fs[LastCropped].from = "placeholder"
             /\ last.ens_ret = Some(LastCropped)

\* C6 as amended: with no original and no placeholder nothing is created, and
\* a call that returns returns the placeholder path; with no original and a
\* placeholder, a call that returns has copied the placeholder to the original
\* path and returns the cropped path, and it has produced the derivative from
\* the copy unless a derivative not older than the copy existed, which it
\* leaves as it is.
C6_Amended ==
    (Resolved /\ ~last.pre[LastOrig].exists) =>
        IF ~last.pre[Placeholder].exists
        THEN /\ fs = last.pre /\ last.wrote = {}
             /\ last.ens_exc = "none" => last.ens_ret = Some(Placeholder)
        ELSE last.ens_exc = "none" =>
             /\ fs[LastOrig].exists
             /\ fs[LastOrig].img = last.pre[Placeholder].img
             /\ fs[LastOrig].from = "placeholder"
             /\ LastOrig \in last.wrote
             /\ last.ens_ret = Some(LastCropped)
             /\ StaleAtCheck =>
                    (LastCropped \in last.wrote /\ fs[LastCropped].from = "placeholder")
             /\ ~StaleAtCheck => fs[LastCropped] = last.pre[LastCropped]

\* an entry never resolved before, a good placeholder: the placeholder was
\* copied, the derivative made from the copy, the cropped path returned
C6_Witness ==
    /\ Resolved
    /\ last.entry = "bare"
    /\ ~last.pre[LastOrig].exists /\ last.pre[Placeholder].img = "good"
    /\ last.ens_ret = Some(LastCropped)
    /\ fs[LastOrig].from = "placeholder" /\ fs[LastCropped].from = "placeholder"

AMP ==
    <<"&","a","m","p",";">>
LT ==
    <<"&","l","t",";">>
GT ==
    <<"&","g","t",";">>
QUOT ==
    <<"&","q","u","o","t",";">>
APOS ==
    <<"&","#","x","2","7",";">>
IMG_OPEN ==
    <<"<","i","m","g"," ","l","o","a","d","i","n","g","=","\"","l","a","z","y","\""," ",
      "s","r","c","=","\"">>
IMG_ONERROR ==
    <<"\""," ","o","n","e","r","r","o","r","=","\"","t","h","i","s",".","o","n","e","r",
      "r","o","r","=","n","u","l","l",";","t","h","i","s",".","s","r","c","=","'">>
IMG_ALT ==
    <<"'",";","\""," ","a","l","t","=","\"">>
IMG_CLOSE ==
    <<"\""," ","c","l","a","s","s","=","\"","g","a","l","l","e","r","y","-","i","m","a",
      "g","e","\"","/",">">>
COVER_IMAGE ==
    <<" ","c","o","v","e","r"," ","i","m","a","g","e">>
ARTICLE_OPEN ==
    <<"\n"," "," "," "," "," "," ","<","a","r","t","i","c","l","e"," ","c","l","a","s",
      "s","=","\"","g","a","l","l","e","r","y","-","i","t","e","m","\"",">","\n"," ",
      " "," "," "," "," "," "," ">>
P_OPEN ==
    <<"\n"," "," "," "," "," "," "," "," ","<","p",">">>
P_CLOSE ==
    <<"<","/","p",">">>
ARTICLE_CLOSE ==
    <<"\n"," "," "," "," "," "," ","<","/","a","r","t","i","c","l","e",">">>
A_OPEN ==
    <<"<","a"," ","c","l","a","s","s","=","\"","g","a","l","l","e","r","y","-","i","t",
      "e","m","-","l","i","n","k","\""," ","h","r","e","f","=","\"">>
A_ATTRS ==
    <<"\""," ","t","a","r","g","e","t","=","\"","_","b","l","a","n","k","\""," ","r",
      "e","l","=","\"","n","o","o","p","e","n","e","r","\"",">">>
A_CLOSE ==
    <<"<","/","a",">">>

EscapeChar(c) ==
    CASE c = "&" -> AMP
      [] c = "<" -> LT
      [] c = ">" -> GT
      [] c = "\"" -> QUOT
      [] c = "'" -> APOS
      [] OTHER -> <<c>>
RECURSIVE escape(_)
\* html.escape(s)
escape(s) == IF s = <<>> THEN <<>> ELSE EscapeChar(Head(s)) \o escape(Tail(s))

\* entry.get("journal") or entry.get("booktitle", "")
Venue(entry) ==
    IF Truthy(Get(entry, "journal")) THEN Val(Get(entry, "journal"))
    ELSE GetOr(entry, "booktitle", <<>>)

\* entry_to_card(entry), given the path get_image_src_for_entry returned
entry_to_card(entry, image_path) ==
    LET title == escape(StripChars(GetOr(entry, "title", <<>>), {"{", "}"}))
        authors == escape(format_authors(GetOr(entry, "author", <<>>)))
        venue == escape(Venue(entry))
        year == escape(GetOr(entry, "year", <<>>))
        url == get_entry_url(entry)
        image_src == escape(as_posix(image_path))
        image_alt == title \o COVER_IMAGE
        img_html == IMG_OPEN \o image_src \o IMG_ONERROR \o as_posix(PLACEHOLDER_IMAGE)
                        \o IMG_ALT \o escape(image_alt) \o IMG_CLOSE
        article_html == ARTICLE_OPEN \o img_html
                            \o P_OPEN \o title \o P_CLOSE
                            \o P_OPEN \o authors \o P_CLOSE
                            \o P_OPEN \o venue \o <<" ">> \o year \o P_CLOSE
                            \o ARTICLE_CLOSE
    IN  IF Truthy(url) THEN A_OPEN \o escape(Val(url)) \o A_ATTRS \o article_html \o A_CLOSE
        ELSE article_html

\* the card of every entry for every path, computed once
CardOf == [id \in EntryIds |-> [p \in Paths |-> entry_to_card(EntryOf[id], PathList[p])]]

\* the code points of the model's characters, in ascending order
Ascii == <<"\t", "\n", "\r", " ", "!", "\"", "%", "&", "'", "+", ",", "-", ".", "/">>
             \o Digits \o <<":", ";", "<", "=", ">", "?">> \o Uppers \o <<"_">>
             \o Lowers \o <<"{", "}", "~">>
Code(c) == IndexIn(Ascii, c)
RECURSIVE StrLess(_, _)
\* a < b on str
StrLess(a, b) ==
    IF b = <<>> THEN FALSE
    ELSE IF a = <<>> THEN TRUE
    ELSE IF a[1] = b[1] THEN StrLess(Tail(a), Tail(b))
    ELSE Code(a[1]) < Code(b[1])

RECURSIVE DigitsValue(_)
DigitsValue(s) ==
    IF s = <<>> THEN 0
    ELSE 10 * DigitsValue(SubSeq(s, 1, Len(s) - 1)) + (IndexIn(Digits, s[Len(s)]) - 1)
\* int(year_str), 0 on ValueError; of int's grammar only plain digits are modelled
YearOf(entry) ==
    LET year_str == GetOr(entry, "year", <<"0">>)
    IN  IF year_str # <<>> /\ \A i \in 1..Len(year_str) : IsDigit(year_str[i])
        THEN DigitsValue(year_str) ELSE 0
\* sort_key(a) < sort_key(b)
KeyLess(a, b) ==
    \/ YearOf(a) < YearOf(b)
    \/ YearOf(a) = YearOf(b) /\ StrLess(GetOr(a, "title", <<>>), GetOr(b, "title", <<>>))

RECURSIVE InsertSorted(_, _)
\* id placed after the entries of the sorted list whose key is not greater
InsertSorted(sorted, id) ==
    IF sorted = <<>> THEN <<id>>
    ELSE IF KeyLess(EntryOf[id], EntryOf[Head(sorted)]) THEN <<id>> \o sorted
    ELSE <<Head(sorted)>> \o InsertSorted(Tail(sorted), id)
RECURSIVE Sorted(_)
\* sorted(entries, key=sort_key): ascending and stable
Sorted(ids) ==
    IF ids = <<>> THEN <<>>
    ELSE InsertSorted(Sorted(SubSeq(ids, 1, Len(ids) - 1)), ids[Len(ids)])

(***************************************************************************)
(* main: load_bib_entries, build_cards_html entry by entry, then           *)
(* inject_cards_into_html.                                                 *)
(***************************************************************************)
Bibliographies ==
    {b \in SeqsUpTo(EntryIds, MaxEntries) :
        \A i, j \in 1..Len(b) : i # j => b[i] # b[j]}
MainHtmls == { <<"x">>, <<"<", "S", "x">>, <<"x", "<", "E">>,
               <<"x", "<", "S", "y", "<", "E", "z">> }
\* the file systems main starts on: good images, all of the same age
MainFileSystems ==
    {f \in FileSystems : \A p \in DOMAIN f : f[p].exists => (f[p].img = "good" /\ f[p].mtime = 0)}

MainInit ==
    /\ bib \in Bibliographies
    /\ html \in MainHtmls
    /\ html0 = html
    /\ fs \in MainFileSystems
    /\ fs0 = fs
    /\ pc = "start" /\ todo = <<>> /\ cards = <<>>
    /\ cards_log = <<>>
    /\ inj = [status |-> "none", before |-> <<>>]
    /\ last = [kind |-> "none"]
    /\ FmtIdle

\* load_bib_entries returns, and build_cards_html sorts the entries
MainLoad ==
    /\ pc = "start"
    /\ pc' = "cards"
    /\ todo' = Sorted(bib)
    /\ UNCHANGED <<bib, cards, FmtVars, InjVars, ImgVars>>

\* load_bib_entries raises: the file is missing or cannot be parsed
MainLoadFails ==
    /\ pc = "start"
    /\ pc' = "load_error"
    /\ UNCHANGED <<bib, todo, cards, FmtVars, InjVars, ImgVars>>

\* entry_to_card of the entry id, whose paths are entry and whose cards are
\* card_of
BuildCard(id, entry, card_of) ==
    \E fault \in Faults, t1 \in CopyTimes(entry, fs) :
      \E t2 \in t1..MaxTime :
        LET e == ensure_local_image_for_entry(entry, fs, fault, t1, t2)
            g == get_image_src_for_entry(e)
        IN  /\ fs' = g.fs
            /\ IF g.exc # "none"
               THEN pc' = "crashed" /\ UNCHANGED <<todo, cards>>
               ELSE /\ pc' = pc
                    /\ todo' = Tail(todo)
                    /\ cards' = Append(cards, card_of[Val(g.ret)])

\* entry_to_card of the next sorted entry
MainCard ==
    /\ pc = "cards" /\ todo # <<>>
    /\ BuildCard(Head(todo), PathsOf[Head(todo)], CardOf[Head(todo)])
    /\ UNCHANGED <<bib, fs0, last, FmtVars, InjVars>>

\* "\n".join(cards), then inject_cards_into_html(HTML_FILE, cards_html)
MainInject ==
    /\ pc = "cards" /\ todo = <<>>
    /\ LET cards_html == Join(cards, <<"\n">>)
           r == inject_cards_into_html(html, cards_html)
       IN  /\ html' = r.html
           /\ inj' = [status |-> IF r.raised THEN "error" ELSE "ok", before |-> html]
           /\ cards_log' = IF r.raised THEN cards_log ELSE Append(cards_log, cards_html)
           /\ pc' = IF r.raised THEN "markers_error" ELSE "done"
    /\ UNCHANGED <<bib, todo, cards, html0, FmtVars, ImgVars>>

MainNext == MainLoad \/ MainLoadFails \/ MainCard \/ MainInject
SpecMain == MainInit /\ [][MainNext]_vars

\* C4 as stated: when main aborts with the markers-not-found error, no image
\* file and no HTML content has been created or changed.
C4_AsClaimed == pc = "markers_error" => (fs = fs0 /\ html = html0)

\* C4 as amended: when main aborts with the markers-not-found error, the HTML
\* file has not been written.
C4_Amended == pc = "markers_error" => html = html0

\* main aborted with the markers-not-found error after build_cards_html had
\* copied the placeholder and written a derivative
C4_Witness ==
    /\ pc = "markers_error"
    /\ html0 = <<"<", "S", "x">>
    /\ \E o \in OrigPaths, c \in CroppedPaths :
          /\ ~fs0[o].exists /\ fs[o].exists
          /\ ~fs0[c].exists /\ fs[c].exists
====
